---- MODULE Spec2Model ----
(***************************************************************************)
(* A model of dnsclient-rust (dig-rs): the configuration collaborator      *)
(* (src/config.rs), the program entry (src/main.rs) and the DNS message    *)
(* model with its socket (src/dns.rs).                                     *)
(*                                                                         *)
(* Three specifications share the variables:                               *)
(*   Spec      one run of the program: AppConfig::from, query, main        *)
(*   SpecDns   the DnsSocket / DnsMessage / DnsRecordType API, few calls   *)
(*   SpecWrap  one DnsSocket queried past the range of its u16 counter     *)
(* Strings the code inspects (file contents, server addresses) are         *)
(* sequences of one-character strings; strings it only passes on           *)
(* (hostnames) are atoms.                                                  *)
(***************************************************************************)
EXTENDS Integers, Sequences, FiniteSets, TLC

VARIABLES
    pc,              \* main.rs: position of main: start, configured, queried, done
    args,            \* the command line: [hostname, global_server (Option as 0/1 seq)]
    file,            \* the file DNS_FILE (or /etc/resolv.conf) names: [readable, contents]
    config,          \* AppConfig {hostname, dns_server}
    result,          \* what query(config) returned: None, Ok, Err
    stderr,          \* lines main printed with eprintln!
    overflow_checks, \* build profile: TRUE = debug (overflow panics), FALSE = release (wraps)
    proc,            \* running | panicked
    sock,            \* DnsSocket: none | connected
    io_fail,         \* the OS-level failure DnsSocket::new met: none | bind | connect
    trans_id,        \* DnsSocket.trans_id : u16
    calls,           \* number of calls of DnsSocket::query so far (history)
    issued,          \* transaction ID of the most recently issued query, 0 before the first (history)
    req,             \* arguments of the last DnsSocket::query call, as a 0/1 sequence (history)
    returned,        \* the DnsMessage the last completed DnsSocket::query returned, as a 0/1 sequence
    value_call       \* last DnsRecordType::value call: <<[type, val]>>

vars == <<pc, args, file, config, result, stderr, overflow_checks, proc, sock,
          io_fail, trans_id, calls, issued, req, returned, value_call>>

progVars == <<pc, args, file, config, result, stderr>>
dnsVars == <<overflow_checks, proc, sock, io_fail, trans_id, calls, issued, req,
             returned, value_call>>

---------------------------------------------------------------------------
(* Bounds of the model *)

\* lines of a resolver configuration file
MaxLines == 2
\* DnsSocket::query calls in SpecDns
MaxQueries == 3
\* DnsSocket::query calls in SpecWrap: past the 65536th
MaxCalls == 65537

---------------------------------------------------------------------------
(* Integer widths *)

U8 == 256
U16 == 65536

RECURSIVE OrBits(_, _, _)
OrBits(a, b, n) ==
    IF n = 0 THEN 0
    ELSE (IF a % 2 = 1 \/ b % 2 = 1 THEN 1 ELSE 0) + 2 * OrBits(a \div 2, b \div 2, n - 1)

RECURSIVE AndBits(_, _, _)
AndBits(a, b, n) ==
    IF n = 0 THEN 0
    ELSE (IF a % 2 = 1 /\ b % 2 = 1 THEN 1 ELSE 0) + 2 * AndBits(a \div 2, b \div 2, n - 1)

\* u16 |= u16
BitOr16(a, b) == OrBits(a, b, 16)
BitAnd16(a, b) == AndBits(a, b, 16)

---------------------------------------------------------------------------
(* src/dns.rs *)

DnsRecordType ==
    {"A", "NS", "CNAME", "SOA", "PTR", "MX", "TXT", "AAAA", "SRV", "NAPTR",
     "OPT", "IXFR", "AXFR", "ANY"}

\* the enum's discriminants
RecordDiscriminant(t) ==
    CASE t = "A" -> 1
      [] t = "NS" -> 2
      [] t = "CNAME" -> 5
      [] t = "SOA" -> 6
      [] t = "PTR" -> 12
      [] t = "MX" -> 15
      [] t = "TXT" -> 16
      [] t = "AAAA" -> 28
      [] t = "SRV" -> 33
      [] t = "NAPTR" -> 35
      [] t = "OPT" -> 41
      [] t = "IXFR" -> 251
      [] t = "AXFR" -> 252
      [] t = "ANY" -> 255

\* a slip: the cast goes to i8 instead of u8
RecordType_value_i8(t) == ((RecordDiscriminant(t) + 128) % U8) - 128

\* fn value(&self) -> u8 { *self as u8 }
RecordType_value(t) == RecordDiscriminant(t) % U8

DnsQueryType == {"Iterative", "Recursive"}

\* Iterative = 0, Recursive (the next discriminant)
QueryDiscriminant(q) == IF q = "Iterative" THEN 0 ELSE 1

\* fn value(&self) -> u16 { *self as u16 }
QueryType_value(q) == QueryDiscriminant(q) % U16

DnsMessageSection_new ==
    [queries |-> <<>>, answers |-> <<>>, authority |-> <<>>, additional |-> <<>>]

DnsMessage_new(id) ==
    [transaction_id |-> id,
     flags |-> 0,
     query_count |-> 0,
     answer_count |-> 0,
     authority_count |-> 0,
     additional_count |-> 0,
     records |-> DnsMessageSection_new]

\* hostname and record are taken and not used; records is left as it was
set_query(m, hostname, query, record) ==
    LET f1 == BitOr16(m.flags, 32768)
        f2 == BitOr16(f1, (128 * QueryType_value(query)) % U16)
    IN  [m EXCEPT !.flags = f2, !.query_count = 1]

\* a slip: the counter is not advanced
NextTransIdStuck(t) == t

\* self.trans_id += 1, before the overflow check
NextTransId(t) == t + 1


Hostnames == {"google.com", "example.com"}

\* DnsSocket::new(server): the two OS calls either succeed or fail; unwrap()
\* panics on the first failure
SocketNew(outcome) ==
    /\ proc = "running"
    /\ sock = "none"
    /\ io_fail' = outcome
    /\ IF outcome = "none"
       THEN /\ sock' = "connected"
            /\ trans_id' = 0
            /\ proc' = proc
       ELSE /\ proc' = "panicked"
            /\ UNCHANGED <<sock, trans_id>>
    /\ UNCHANGED <<overflow_checks, calls, issued, req, returned, value_call>>
    /\ UNCHANGED progVars

\* DnsSocket::query(hostname, query, record). The u16 addition overflows at
\* 65535: a build with overflow checks panics there, one without wraps to 0.
SocketQuery(hostname, query, record) ==
    /\ proc = "running"
    /\ sock = "connected"
    /\ calls' = calls + 1
    /\ req' = <<[hostname |-> hostname, query |-> query, record |-> record]>>
    /\ LET n == NextTransId(trans_id)
       IN  IF n >= U16 /\ overflow_checks
           THEN /\ proc' = "panicked"
                /\ UNCHANGED <<trans_id, issued, returned>>
           ELSE /\ trans_id' = n % U16
                /\ returned' = <<set_query(DnsMessage_new(n % U16), hostname, query, record)>>
                /\ issued' = returned'[1].transaction_id
                /\ proc' = proc
    /\ UNCHANGED <<overflow_checks, sock, io_fail, value_call>>
    /\ UNCHANGED progVars

\* DnsRecordType::value applied to a record type
RecordValue(t) ==
    /\ proc = "running"
    /\ value_call' = <<[type |-> t, val |-> RecordType_value(t)]>>
    /\ UNCHANGED <<overflow_checks, proc, sock, io_fail, trans_id, calls, issued,
                   req, returned>>
    /\ UNCHANGED progVars

ProgIdle ==
    /\ pc = "start"
    /\ args = [hostname |-> "google.com", global_server |-> <<>>]
    /\ file = [readable |-> FALSE, contents |-> <<>>]
    /\ config = [hostname |-> "", dns_server |-> <<>>]
    /\ result = "None"
    /\ stderr = <<>>

DnsIdle ==
    /\ proc = "running"
    /\ sock = "none"
    /\ io_fail = "none"
    /\ trans_id = 0
    /\ calls = 0
    /\ issued = 0
    /\ req = <<>>
    /\ returned = <<>>
    /\ value_call = <<>>

InitDns ==
    /\ ProgIdle
    /\ DnsIdle
    /\ overflow_checks \in BOOLEAN

NextDns ==
    \/ \E outcome \in {"none", "bind", "connect"} : SocketNew(outcome)
    \/ \E h \in Hostnames, q \in DnsQueryType, r \in DnsRecordType :
          calls < MaxQueries /\ SocketQuery(h, q, r)
    \/ \E t \in DnsRecordType : RecordValue(t)

SpecDns == InitDns /\ [][NextDns]_vars

\* the state DnsSocket::new leaves when both OS calls succeed
InitWrap ==
    /\ ProgIdle
    /\ overflow_checks \in BOOLEAN
    /\ proc = "running"
    /\ sock = "connected"
    /\ io_fail = "none"
    /\ trans_id = 0
    /\ calls = 0
    /\ issued = 0
    /\ req = <<>>
    /\ returned = <<>>
    /\ value_call = <<>>

NextWrap ==
    \E q \in DnsQueryType : calls < MaxCalls /\ SocketQuery("google.com", q, "A")

SpecWrap == InitWrap /\ [][NextWrap]_vars

---------------------------------------------------------------------------
(* src/config.rs *)

NL == "\n"
Prefix == <<"n", "a", "m", "e", "s", "e", "r", "v", "e", "r", " ">>

\* str::split('\n'): the pieces between newlines; n newlines give n + 1 pieces
RECURSIVE SplitFrom(_, _)
SplitFrom(s, cur) ==
    IF s = <<>> THEN <<cur>>
    ELSE IF Head(s) = NL THEN <<cur>> \o SplitFrom(Tail(s), <<>>)
    ELSE SplitFrom(Tail(s), Append(cur, Head(s)))

split_newline(s) == SplitFrom(s, <<>>)

starts_with(line, p) == Len(line) >= Len(p) /\ SubSeq(line, 1, Len(p)) = p

strip_prefix(line, p) == SubSeq(line, Len(p) + 1, Len(line))

\* the for loop of parse_resolv_conf over the lines
RECURSIVE CollectNameservers(_)
CollectNameservers(lines) ==
    IF lines = <<>> THEN <<>>
    ELSE (IF starts_with(Head(lines), Prefix)
          THEN <<strip_prefix(Head(lines), Prefix)>>
          ELSE <<>>) \o CollectNameservers(Tail(lines))

\* parse_resolv_conf(path), given what read_to_string(path) returns
parse_resolv_conf(f) ==
    IF ~f.readable THEN <<>>
    ELSE CollectNameservers(split_newline(f.contents))

\* a slip: the file's servers are appended to the override
SelectServersBoth(a, f) == a.global_server \o parse_resolv_conf(f)

\* matches.value_of("global-server").map(..).unwrap_or_else(|| parse_resolv_conf(..))
SelectServers(a, f) ==
    IF a.global_server # <<>> THEN <<a.global_server[1]>> ELSE parse_resolv_conf(f)

AppConfig_from(a, f) ==
    [hostname |-> a.hostname, dns_server |-> SelectServers(a, f)]

---------------------------------------------------------------------------
(* src/main.rs *)

\* fn query(config) -> Result<(), Box<dyn Error>> { Ok(()) }
query(c) == "Ok"

\* let config = AppConfig::from(&mut std::env::args_os());
AppConfigFrom ==
    /\ pc = "start"
    /\ config' = AppConfig_from(args, file)
    /\ pc' = "configured"
    /\ UNCHANGED <<args, file, result, stderr>>
    /\ UNCHANGED dnsVars

\* the call query(config) of main
Query ==
    /\ pc = "configured"
    /\ result' = query(config)
    /\ pc' = "queried"
    /\ UNCHANGED <<args, file, config, stderr>>
    /\ UNCHANGED dnsVars

\* if let Err(e) = .. { eprintln!(..) }, and main returns
MainExit ==
    /\ pc = "queried"
    /\ stderr' = IF result = "Err" THEN Append(stderr, "Error performing DNS query") ELSE stderr
    /\ pc' = "done"
    /\ UNCHANGED <<args, file, config, result>>
    /\ UNCHANGED dnsVars

(* The inputs of a run *)

Ip1 == <<"1", ".", "1", ".", "1", ".", "1">>
Ip2 == <<"8", ".", "8", ".", "8", ".", "8">>
IpAddrs == {Ip1, Ip2}

\* lines a resolver configuration file holds
LineSamples ==
    { Prefix \o Ip1,                                  \* nameserver 1.1.1.1
      Prefix \o Ip2,                                  \* nameserver 8.8.8.8
      <<"#", " ", "d", "n", "s">>,                    \* # dns
      <<>>,                                           \* an empty line
      Prefix \o Ip1 \o <<"\r">>,                      \* a CRLF line ending
      Prefix \o Ip2 \o <<" ", "#", "x">>,             \* a trailing comment
      Prefix \o <<" ">> \o Ip1,                       \* two spaces
      Prefix \o <<"x">>,                              \* nameserver x
      <<"n", "a", "m", "e", "s", "e", "r", "v", "e", "r", "\t">> \o Ip1 }  \* a tab

RECURSIVE JoinLines(_)
JoinLines(ls) ==
    IF ls = <<>> THEN <<>>
    ELSE IF Len(ls) = 1 THEN ls[1]
    ELSE ls[1] \o <<NL>> \o JoinLines(Tail(ls))

FileContents ==
    { JoinLines(ls) \o (IF nl THEN <<NL>> ELSE <<>>) :
        ls \in UNION { [1..n -> LineSamples] : n \in 0..MaxLines }, nl \in BOOLEAN }

Files ==
    {[readable |-> FALSE, contents |-> <<>>]}
        \cup {[readable |-> TRUE, contents |-> c] : c \in FileContents}

Init ==
    /\ pc = "start"
    /\ args \in [hostname : Hostnames, global_server : {<<>>, <<Ip1>>, <<Ip2>>}]
    /\ file \in Files
    /\ config = [hostname |-> "", dns_server |-> <<>>]
    /\ result = "None"
    /\ stderr = <<>>
    /\ DnsIdle
    /\ overflow_checks = FALSE

Next == AppConfigFrom \/ Query \/ MainExit

Spec == Init /\ [][Next]_vars

---------------------------------------------------------------------------
(* Properties of DnsSocket and DnsMessage, under SpecDns *)

\* C1: in every message DnsSocket::query builds, the RD bit of the flags
\* (mask 0x0100) is 1 when the query type asked for is Recursive and 0 when
\* it is Iterative.
RDBitFollowsQueryType ==
    (proc = "running" /\ returned # <<>>) =>
        ((BitAnd16(returned[1].flags, 256) = 256) <=> (req[1].query = "Recursive"))

\* C2: in every DnsMessage the four header counts equal the lengths of the
\* four sections.
CountsEqualSectionLengths ==
    \A i \in 1..Len(returned) :
        LET m == returned[i]
        IN  /\ m.query_count = Len(m.records.queries)
            /\ m.answer_count = Len(m.records.answers)
            /\ m.authority_count = Len(m.records.authority)
            /\ m.additional_count = Len(m.records.additional)

\* C7: a transport failure in DnsSocket::new (bind or connect fails) is not
\* fatal to the process.
TransportFailureNotFatal == io_fail # "none" => proc = "running"

\* the wire values of section 3 of the specification
WireValue(t) ==
    CASE t = "A" -> 1 [] t = "NS" -> 2 [] t = "CNAME" -> 5 [] t = "SOA" -> 6
      [] t = "PTR" -> 12 [] t = "MX" -> 15 [] t = "TXT" -> 16 [] t = "AAAA" -> 28
      [] t = "SRV" -> 33 [] t = "NAPTR" -> 35 [] t = "OPT" -> 41
      [] t = "IXFR" -> 251 [] t = "AXFR" -> 252 [] t = "ANY" -> 255

\* C8: DnsRecordType::value returns each record type's wire value, not
\* truncated, and no two record types share a value.
RecordTypeWireValues ==
    /\ \A i \in 1..Len(value_call) :
          value_call[i].val = WireValue(value_call[i].type)
    /\ \A i \in 1..Len(value_call) :
          \A t \in DnsRecordType :
              RecordType_value(t) = value_call[i].val => t = value_call[i].type

RecordTypeWireValuesWitness ==
    /\ value_call # <<>>
    /\ value_call[1].type = "ANY"
    /\ value_call[1].val = 255

\* C9: the message DnsSocket::query returns carries exactly one question,
\* with the hostname and the record type asked for.
ReturnedMessageCarriesQuestion ==
    (proc = "running" /\ returned # <<>>) =>
        LET qs == returned[1].records.queries
        IN  /\ Len(qs) = 1
            /\ qs[1].qz_name = req[1].hostname
            /\ qs[1].qz_type = req[1].record

---------------------------------------------------------------------------
(* Properties of the transaction ID, under SpecWrap *)

\* C3: every call of DnsSocket::query completes and returns a message whose
\* transaction ID is not zero.
EveryQueryReturnsNonZeroId ==
    calls >= 1 =>
        /\ proc = "running"
        /\ returned # <<>>
        /\ returned[1].transaction_id # 0

\* C10: the k-th call of query on a socket returns transaction ID k for
\* every k <= 65535, and DnsSocket.trans_id is the ID of the most recently
\* issued query (0 before the first).
TransIdCountsCalls ==
    /\ trans_id = issued
    /\ calls = 0 => trans_id = 0
    /\ (calls >= 1 /\ calls <= U16 - 1) =>
          /\ proc = "running"
          /\ returned # <<>>
          /\ returned[1].transaction_id = calls

TransIdCountsCallsWitness ==
    /\ calls = U16 - 1
    /\ returned # <<>>
    /\ returned[1].transaction_id = U16 - 1

---------------------------------------------------------------------------
(* Properties of a run of the program, under Spec *)

\* C4: the server list AppConfig::from produces is the one-element list of
\* the override when --global-server is given, and otherwise the list
\* parse_resolv_conf returns for the file; the hostname is the positional
\* argument in both cases.
ServerListFromOverrideOrFile ==
    pc # "start" =>
        /\ config.hostname = args.hostname
        /\ args.global_server # <<>> =>
              (Len(config.dns_server) = 1 /\ config.dns_server[1] = args.global_server[1])
        /\ args.global_server = <<>> => config.dns_server = parse_resolv_conf(file)

ServerListFromOverrideOrFileWitness ==
    /\ pc = "done"
    /\ args.global_server = <<Ip2>>
    /\ parse_resolv_conf(file) = <<Ip1>>
    /\ config.dns_server = <<Ip2>>

\* a line of the form nameserver <ip>
IsNameserverLine(line) == \E ip \in IpAddrs : line = Prefix \o ip

\* one address per line of that form, in the order of the lines
RECURSIVE AddressesOf(_)
AddressesOf(lines) ==
    IF lines = <<>> THEN <<>>
    ELSE (IF IsNameserverLine(Head(lines))
          THEN <<CHOOSE ip \in IpAddrs : Head(lines) = Prefix \o ip>>
          ELSE <<>>) \o AddressesOf(Tail(lines))

\* C5: parse_resolv_conf returns the address of each line of the form
\* nameserver <ip>, and nothing else of the line, in the order of the lines,
\* nothing for any other line, and the empty list for an unreadable file.
ParsedServersAreAddresses ==
    (pc # "start" /\ args.global_server = <<>>) =>
        config.dns_server =
            (IF file.readable THEN AddressesOf(split_newline(file.contents)) ELSE <<>>)

\* C6: when the candidate servers are exhausted without a validated response
\* (the list may be empty), the resolution ends Failed and the caller is
\* given an error.
ExhaustionEndsFailed ==
    (pc = "done" /\ config.dns_server = <<>>) => (result = "Err" /\ stderr # <<>>)

====
